---- MODULE Spec2Model ----
(***************************************************************************)
(* Model of the hospital booking API of src/app.py: the patients,          *)
(* doctors and appointments tables and the handlers that write the         *)
(* appointments table (book_appointment, reschedule, cancel).              *)
(*                                                                         *)
(* Representation.  A datetime.date is its proleptic Gregorian ordinal     *)
(* (date.toordinal()), a datetime.time is its minute of the day, the       *)
(* "days" column is the list days.split(",") yields, and the appointments  *)
(* table is the sequence of its rows in id order (ids are 1, 2, 3, ... and *)
(* no handler deletes a row).                                              *)
(***************************************************************************)
EXTENDS Integers, Sequences, FiniteSets, TLC

VARIABLES
    patients,     \* ids of the rows of table patients
    appts,        \* table appointments: appts[id] is row id
    inflight,     \* book requests between their first query and their commit
    req,          \* the request answered last
    resp,         \* the response to it
    booked_log,   \* history: the slot each row was created at, in booking order
    day_moved,    \* history: some reschedule changed a row's doctor or date
    gen           \* the time_range generator a handler is consuming

vars == <<patients, appts, inflight, req, resp, booked_log, day_moved, gen>>

----------------------------------------------------------------------------
(* Bounds of the model *)

MaxPatients == 2
MaxAppts == 2
MaxMinute == 5      \* start and end of a generated grid are in 0 .. MaxMinute
MaxStep == 3        \* step_min of a generated grid is in 0 .. MaxStep

(* The two book requests whose steps interleave *)
Workers == {1, 2}

----------------------------------------------------------------------------
(* Table doctors, as seed_doctors fills it (ids 1..7) *)

Doctors ==
    << [department |-> "General Medicine",
        days |-> <<"Mon", "Tue", "Wed", "Thu", "Fri", "Sat">>,
        start_time |-> 540, end_time |-> 720, slot_minutes |-> 10],
       [department |-> "General Medicine",
        days |-> <<"Mon", "Wed", "Fri">>,
        start_time |-> 900, end_time |-> 1080, slot_minutes |-> 10],
       [department |-> "Cardiology",
        days |-> <<"Mon", "Thu">>,
        start_time |-> 600, end_time |-> 780, slot_minutes |-> 20],
       [department |-> "Cardiology",
        days |-> <<"Tue", "Fri">>,
        start_time |-> 600, end_time |-> 780, slot_minutes |-> 20],
       [department |-> "Orthopedics",
        days |-> <<"Wed", "Sat">>,
        start_time |-> 600, end_time |-> 780, slot_minutes |-> 15],
       [department |-> "Dentistry",
        days |-> <<"Tue", "Thu", "Sat">>,
        start_time |-> 600, end_time |-> 780, slot_minutes |-> 15],
       [department |-> "Neurology",
        days |-> <<"Mon", "Wed">>,
        start_time |-> 900, end_time |-> 1080, slot_minutes |-> 20] >>

(* db.get(Doctor, id): the row, or nothing *)
doctor_exists(id) == id \in DOMAIN Doctors

----------------------------------------------------------------------------
(* Utilities *)

SeqToSet(s) == {s[i] : i \in DOMAIN s}

(* dt.date.fromisoformat("YYYY-MM-DD"): the date, as its ordinal *)
IsLeap(year) == year % 4 = 0 /\ (year % 100 # 0 \/ year % 400 = 0)

DaysBeforeYear(year) ==
    (year - 1) * 365 + (year - 1) \div 4 - (year - 1) \div 100 + (year - 1) \div 400

DaysBeforeMonth(year, month) ==
    <<0, 31, 59, 90, 120, 151, 181, 212, 243, 273, 304, 334>>[month]
        + (IF month > 2 /\ IsLeap(year) THEN 1 ELSE 0)

fromisoformat(year, month, day) ==
    DaysBeforeYear(year) + DaysBeforeMonth(year, month) + day

WeekdayNames == <<"Mon", "Tue", "Wed", "Thu", "Fri", "Sat", "Sun">>

(* date.weekday() is 0 for Monday; ordinal 1 (0001-01-01) is a Monday *)
weekday_name(date) == WeekdayNames[((date + 6) % 7) + 1]

(* the loop test of the generator: while cur <= end_dt *)
loop_test_strict(cur, end_dt) == cur < end_dt

loop_test(cur, end_dt) == cur <= end_dt

(* the generator's loop: while cur <= end: yield cur; cur += delta *)
RECURSIVE time_range(_, _, _)
time_range(start, end, step_min) ==
    IF loop_test(start, end)
    THEN <<start>> \o time_range(start + step_min, end, step_min)
    ELSE <<>>

(* set(time_range(start, end, doctor.slot_minutes)), for each row of doctors *)
SlotGrids ==
    [id \in DOMAIN Doctors |->
        SeqToSet(time_range(Doctors[id].start_time, Doctors[id].end_time,
                            Doctors[id].slot_minutes))]

(* every minute of the day taken for a point of the grid *)
valid_slots_day(doctor_id) == 0 .. 1439

valid_slots(doctor_id) == SlotGrids[doctor_id]

----------------------------------------------------------------------------
(* Requests and responses *)

NoDoctor == 0   \* new_doctor_id absent (None); `if body.new_doctor_id` is false

BookReq(patient_id, doctor_id, date, time, payment_method) ==
    [op |-> "book", patient_id |-> patient_id, doctor_id |-> doctor_id,
     appointment_id |-> 0, date |-> date, time |-> time,
     payment_method |-> payment_method]

RescheduleReq(appointment_id, date, time, new_doctor_id) ==
    [op |-> "reschedule", patient_id |-> 0, doctor_id |-> new_doctor_id,
     appointment_id |-> appointment_id, date |-> date, time |-> time,
     payment_method |-> ""]

CancelReq(appointment_id) ==
    [op |-> "cancel", patient_id |-> 0, doctor_id |-> 0,
     appointment_id |-> appointment_id, date |-> 0, time |-> 0,
     payment_method |-> ""]

OtherReq(op) ==
    [op |-> op, patient_id |-> 0, doctor_id |-> 0, appointment_id |-> 0,
     date |-> 0, time |-> 0, payment_method |-> ""]

(* raise HTTPException(code, detail) *)
HTTPException(code, detail) == [code |-> code, detail |-> detail, id |-> 0]

(* a normal return; id is the appointment the response describes *)
Ok(id) == [code |-> 200, detail |-> <<"OK">>, id |-> id]

(* an exception no handler catches: sqlalchemy.exc.IntegrityError at commit *)
IntegrityError == [code |-> 500, detail |-> <<"IntegrityError">>, id |-> 0]

----------------------------------------------------------------------------
(* Table appointments *)

(* ids of the rows filter_by(doctor_id, appt_date, appt_time) selects *)
rows_at(store, doctor_id, date, time) ==
    {i \in DOMAIN store : /\ store[i].doctor_id = doctor_id
                          /\ store[i].appt_date = date
                          /\ store[i].appt_time = time}

(* the conflict query with a status = "booked" filter added *)
first_at_booked(store, doctor_id, date, time) ==
    LET ids == {i \in rows_at(store, doctor_id, date, time) :
                   store[i].status = "booked"}
    IN  IF ids = {} THEN 0 ELSE CHOOSE i \in ids : \A j \in ids : i <= j

(* .first(): a selected row's id, or 0 for None *)
first_at(store, doctor_id, date, time) ==
    LET ids == rows_at(store, doctor_id, date, time)
    IN  IF ids = {} THEN 0 ELSE CHOOSE i \in ids : \A j \in ids : i <= j

(* filter_by(doctor_id, appt_date).count() *)
count_doctor_date(store, doctor_id, date) ==
    Cardinality({i \in DOMAIN store : /\ store[i].doctor_id = doctor_id
                                      /\ store[i].appt_date = date})

(* the table without its unique constraint *)
uniq_doctor_slot_off(store, id, doctor_id, date, time) == TRUE

(* UniqueConstraint("doctor_id", "appt_date", "appt_time"): may row `id`
   (0 for a new row) hold these values beside the other rows? *)
uniq_doctor_slot(store, id, doctor_id, date, time) ==
    rows_at(store, doctor_id, date, time) \subseteq {id}

(* db.add(appt); db.commit() *)
db_insert(store, appt) ==
    IF uniq_doctor_slot(store, 0, appt.doctor_id, appt.appt_date, appt.appt_time)
    THEN [appts |-> Append(store, appt), resp |-> Ok(Len(store) + 1)]
    ELSE [appts |-> store, resp |-> IntegrityError]

(* db.commit() of a changed row *)
db_update(store, id, appt) ==
    IF uniq_doctor_slot(store, id, appt.doctor_id, appt.appt_date, appt.appt_time)
    THEN [appts |-> [store EXCEPT ![id] = appt], resp |-> Ok(id)]
    ELSE [appts |-> store, resp |-> IntegrityError]

----------------------------------------------------------------------------
(* POST /appointments *)

(* the checks with the doctor looked up before the patient *)
book_check_doctor_first(body, ps, store) ==
    IF ~doctor_exists(body.doctor_id)
    THEN HTTPException(404, <<"Doctor not found">>)
    ELSE IF body.patient_id \notin ps
    THEN HTTPException(404, <<"Patient not found">>)
    ELSE LET doctor == Doctors[body.doctor_id]
             w == weekday_name(body.date)
         IN  IF w \notin SeqToSet(doctor.days)
             THEN HTTPException(400, <<"Doctor not available on", w>>)
             ELSE IF body.time \notin valid_slots(body.doctor_id)
             THEN HTTPException(400, <<"Invalid time slot">>)
             ELSE IF first_at(store, body.doctor_id, body.date, body.time) # 0
             THEN HTTPException(409, <<"Slot already booked">>)
             ELSE Ok(0)

(* the checks of book_appointment, in the handler's order: the exception
   raised, or Ok(0) when every check passes *)
book_check(body, ps, store) ==
    IF body.patient_id \notin ps
    THEN HTTPException(404, <<"Patient not found">>)
    ELSE IF ~doctor_exists(body.doctor_id)
    THEN HTTPException(404, <<"Doctor not found">>)
    ELSE LET doctor == Doctors[body.doctor_id]
             w == weekday_name(body.date)
         IN  IF w \notin SeqToSet(doctor.days)
             THEN HTTPException(400, <<"Doctor not available on", w>>)
             ELSE IF body.time \notin valid_slots(body.doctor_id)
             THEN HTTPException(400, <<"Invalid time slot">>)
             ELSE IF first_at(store, body.doctor_id, body.date, body.time) # 0
             THEN HTTPException(409, <<"Slot already booked">>)
             ELSE Ok(0)

(* the token counted over the booked rows only *)
next_token_booked(store, doctor_id, date) ==
    Cardinality({i \in DOMAIN store : /\ store[i].doctor_id = doctor_id
                                      /\ store[i].appt_date = date
                                      /\ store[i].status = "booked"}) + 1

(* token = ...count() + 1 *)
next_token(store, doctor_id, date) == count_doctor_date(store, doctor_id, date) + 1

(* Appointment(patient_id=..., ..., status="booked", payment_method=...) *)
new_appointment(body, token) ==
    [patient_id |-> body.patient_id, doctor_id |-> body.doctor_id,
     appt_date |-> body.date, appt_time |-> body.time, token_no |-> token,
     status |-> "booked",
     payment_method |-> IF body.payment_method = "" THEN "direct"
                        ELSE body.payment_method]

(* the handler with the row written before the slot-grid check *)
book_result_insert_early(body, ps, store) ==
    LET err == book_check(body, ps, store)
        appt == new_appointment(body, next_token(store, body.doctor_id, body.date))
    IN  IF err = HTTPException(400, <<"Invalid time slot">>)
        THEN [appts |-> Append(store, appt), resp |-> err]
        ELSE IF err.code # 200
        THEN [appts |-> store, resp |-> err]
        ELSE db_insert(store, appt)

(* the handler run as one unit of work: the table and the response after it *)
book_result(body, ps, store) ==
    LET err == book_check(body, ps, store)
    IN  IF err.code # 200
        THEN [appts |-> store, resp |-> err]
        ELSE db_insert(store, new_appointment(body,
                 next_token(store, body.doctor_id, body.date)))

book_appointment(body) ==
    LET res == book_result(body, patients, appts)
    IN  /\ Len(res.appts) <= MaxAppts
        /\ appts' = res.appts
        /\ req' = body
        /\ resp' = res.resp
        /\ UNCHANGED patients

----------------------------------------------------------------------------
(* POST /appointments/reschedule *)

(* the clash test without the exclusion of the appointment itself *)
is_clash_any(clash, id) == clash # 0

(* `if clash and clash.id != a.id` *)
is_clash(clash, id) == clash # 0 /\ clash # id

(* a reschedule that also sets the status back to booked *)
moved_rebooked(a, doctor_id, date, time) ==
    [a EXCEPT !.doctor_id = doctor_id, !.appt_date = date, !.appt_time = time,
              !.status = "booked"]

(* a.doctor_id = doctor.id; a.appt_date = date; a.appt_time = time *)
moved(a, doctor_id, date, time) ==
    [a EXCEPT !.doctor_id = doctor_id, !.appt_date = date, !.appt_time = time]

reschedule_result(body, store) ==
    IF body.appointment_id \notin DOMAIN store
    THEN [appts |-> store, resp |-> HTTPException(404, <<"Appointment not found">>)]
    ELSE
    LET a == store[body.appointment_id]
        doctor_id == IF body.doctor_id # NoDoctor THEN body.doctor_id
                     ELSE a.doctor_id
    IN  IF ~doctor_exists(doctor_id)
        THEN [appts |-> store, resp |-> HTTPException(404, <<"Doctor not found">>)]
        ELSE
        LET doctor == Doctors[doctor_id]
            w == weekday_name(body.date)
        IN  IF w \notin SeqToSet(doctor.days)
            THEN [appts |-> store,
                  resp |-> HTTPException(400, <<"Doctor not available on", w>>)]
            ELSE IF body.time \notin valid_slots(doctor_id)
            THEN [appts |-> store,
                  resp |-> HTTPException(400, <<"Invalid time slot">>)]
            ELSE IF is_clash(first_at(store, doctor_id, body.date, body.time),
                             body.appointment_id)
            THEN [appts |-> store,
                  resp |-> HTTPException(409, <<"Requested slot already booked">>)]
            ELSE db_update(store, body.appointment_id,
                           moved(a, doctor_id, body.date, body.time))

reschedule(body) ==
    LET res == reschedule_result(body, appts)
    IN  /\ appts' = res.appts
        /\ req' = body
        /\ resp' = res.resp
        /\ UNCHANGED patients

----------------------------------------------------------------------------
(* POST /appointments/cancel *)

(* a cancel that also gives the token back *)
cancelled_renumbered(a) == [a EXCEPT !.status = "cancelled", !.token_no = 0]

(* a.status = "cancelled" *)
cancelled(a) == [a EXCEPT !.status = "cancelled"]

cancel_result(body, store) ==
    IF body.appointment_id \notin DOMAIN store
    THEN [appts |-> store, resp |-> HTTPException(404, <<"Appointment not found">>)]
    ELSE [appts |-> [store EXCEPT ![body.appointment_id] = cancelled(@)],
          resp |-> Ok(body.appointment_id)]

cancel(body) ==
    LET res == cancel_result(body, appts)
    IN  /\ appts' = res.appts
        /\ req' = body
        /\ resp' = res.resp
        /\ UNCHANGED patients

----------------------------------------------------------------------------
(* POST /availability: reads the tables, writes nothing *)

AvailabilityQuery(department, date) == [department |-> department, date |-> date]

Digits == <<"0", "1", "2", "3", "4", "5", "6", "7", "8", "9">>

(* "%H:%M" of each minute of the day: hour and minute, two digits each *)
HourMinute ==
    [t \in 0 .. 1439 |->
        Digits[((t \div 60) \div 10) + 1] \o Digits[((t \div 60) % 10) + 1]
            \o ":"
            \o Digits[((t % 60) \div 10) + 1] \o Digits[((t % 60) % 10) + 1]]

(* t.strftime("%H:%M") *)
strftime(t) == HourMinute[t]

(* db.query(Doctor).filter(Doctor.department == q.department).all() *)
docs_of(department) ==
    SelectSeq([id \in DOMAIN Doctors |-> id],
              LAMBDA id : Doctors[id].department = department)

(* the weekday test passing for every doctor *)
works_on_any(doctor_id, w) == TRUE

(* not the "continue" branch: w in d.days.split(",") *)
works_on(doctor_id, w) == w \in SeqToSet(Doctors[doctor_id].days)

(* list(time_range(start, end, d.slot_minutes)), for each row of doctors *)
SlotLists ==
    [id \in DOMAIN Doctors |->
        time_range(Doctors[id].start_time, Doctors[id].end_time,
                   Doctors[id].slot_minutes)]

slots(doctor_id) == SlotLists[doctor_id]

(* the times of the booked rows only *)
taken_booked(store, doctor_id, date) ==
    {store[i].appt_time :
        i \in {j \in DOMAIN store : /\ store[j].doctor_id = doctor_id
                                    /\ store[j].appt_date = date
                                    /\ store[j].status = "booked"}}

(* taken = {a.appt_time for a in ...filter(doctor_id == d.id, appt_date == date)} *)
taken(store, doctor_id, date) ==
    {store[i].appt_time :
        i \in {j \in DOMAIN store : /\ store[j].doctor_id = doctor_id
                                    /\ store[j].appt_date = date}}

(* free = [t.strftime("%H:%M") for t in slots if t not in taken] *)
free(store, doctor_id, date) ==
    LET held == taken(store, doctor_id, date)
        kept == SelectSeq(slots(doctor_id), LAMBDA t : t \notin held)
    IN  [i \in 1 .. Len(kept) |-> strftime(kept[i])]

availability(q, store) ==
    LET w == weekday_name(q.date)
        docs == docs_of(q.department)
        working == SelectSeq(docs, LAMBDA id : works_on(id, w))
    IN  [date |-> q.date, department |-> q.department,
         availability |->
            [i \in 1 .. Len(working) |->
                [doctor_id |-> working[i],
                 free_slots |-> free(store, working[i], q.date)]]]

----------------------------------------------------------------------------
(* POST /patients: the new row gets the next id *)

create_patient ==
    /\ Cardinality(patients) < MaxPatients
    /\ patients' = patients \cup {Cardinality(patients) + 1}
    /\ req' = OtherReq("create_patient")
    /\ resp' = Ok(Cardinality(patients) + 1)
    /\ UNCHANGED appts

----------------------------------------------------------------------------
(* Two book requests whose queries and commits interleave.  Each query and
   each commit reads and writes the committed table. *)

Idle == [pc |-> "idle", body |-> OtherReq("none"), token |-> 0]

(* lines 288-310: the lookups, the validation and the conflict query *)
book_begin(r, body) ==
    LET err == book_check(body, patients, appts)
    IN  /\ inflight[r].pc = "idle"
        /\ IF err.code # 200
           THEN /\ req' = body
                /\ resp' = err
                /\ UNCHANGED inflight
           ELSE /\ Len(appts) + Cardinality({q \in Workers : inflight[q].pc # "idle"})
                       < MaxAppts
                /\ inflight' = [inflight EXCEPT ![r] =
                                   [pc |-> "checked", body |-> body, token |-> 0]]
                /\ UNCHANGED <<req, resp>>
        /\ UNCHANGED <<patients, appts>>

(* line 312: the count query *)
book_count(r) ==
    /\ inflight[r].pc = "checked"
    /\ inflight' = [inflight EXCEPT ![r].pc = "counted",
                       ![r].token = next_token(appts, inflight[r].body.doctor_id,
                                               inflight[r].body.date)]
    /\ UNCHANGED <<patients, appts, req, resp>>

(* lines 313-319: db.add(appt); db.commit() *)
book_commit(r) ==
    LET res == db_insert(appts, new_appointment(inflight[r].body, inflight[r].token))
    IN  /\ inflight[r].pc = "counted"
        /\ appts' = res.appts
        /\ req' = inflight[r].body
        /\ resp' = res.resp
        /\ inflight' = [inflight EXCEPT ![r] = Idle]
        /\ UNCHANGED patients

----------------------------------------------------------------------------
(* Request inputs *)

Monday == fromisoformat(2024, 1, 1)
Tuesday == fromisoformat(2024, 1, 2)

(* the payment_method a patient's requests carry; "" is an absent one *)
PaymentOf(p) == IF p % 2 = 1 THEN "" ELSE "insurance"

(* Spec: patient 9 is never registered; doctor 1 works on both dates, doctor 3
   on Monday only, doctor 8 does not exist; 10:00 is on both grids, 10:05 on neither *)
PatientIds == {1, 2, 9}
DoctorIds == {1, 3, 8}
Dates == {Monday, Tuesday}
Times == {600, 605}
AppointmentIds == 1 .. (MaxAppts + 1)

BookInputs ==
    {BookReq(p, d, dd, t, PaymentOf(p)) :
        p \in PatientIds, d \in DoctorIds, dd \in Dates, t \in Times}

RescheduleInputs ==
    {RescheduleReq(a, dd, t, d) : a \in AppointmentIds, dd \in Dates, t \in Times,
                                  d \in DoctorIds \cup {NoDoctor}}

CancelInputs == {CancelReq(a) : a \in AppointmentIds}

(* SpecLog and SpecRace: two times of doctor 1's Monday, one of them also on
   doctor 3's grid; every patient id exists once the patients are created *)
LogTimes == {600, 610}

LogBookInputs ==
    {BookReq(p, d, Monday, t, PaymentOf(p)) :
        p \in {1, 2}, d \in {1, 3}, t \in LogTimes}

LogRescheduleInputs ==
    {RescheduleReq(a, Monday, t, d) :
        a \in 1 .. MaxAppts, t \in LogTimes, d \in {1, 3}}

(* SpecRace: reschedules that keep the doctor *)
RaceRescheduleInputs ==
    {RescheduleReq(a, Monday, t, NoDoctor) : a \in 1 .. MaxAppts, t \in LogTimes}

LogCancelInputs == {CancelReq(a) : a \in 1 .. MaxAppts}

----------------------------------------------------------------------------
(* History: the slot of each row when it was created *)

slot_of(a) == <<a.doctor_id, a.appt_date, a.appt_time>>

LogBooking ==
    booked_log' = IF Len(appts') > Len(appts)
                  THEN Append(booked_log, slot_of(appts'[Len(appts')]))
                  ELSE booked_log

(* History: a.doctor_id or a.appt_date of a stored row was reassigned *)
LogMove ==
    day_moved' = (\/ day_moved
                  \/ \E id \in DOMAIN appts :
                         \/ appts'[id].doctor_id # appts[id].doctor_id
                         \/ appts'[id].appt_date # appts[id].appt_date)

----------------------------------------------------------------------------
(* The generator time_range, statement by statement, as list(...) or       *)
(* set(...) in a handler consumes it                                        *)

NoCall ==
    [caller |-> "none", start |-> 0, end |-> 0, step_min |-> 0,
     cur |-> 0, out |-> <<>>, pc |-> "idle"]

Callers == {"availability", "book_appointment", "reschedule"}

(* a grid with a positive step has at most MaxMinute + 1 points, so this   *)
(* cap stops only a loop that makes no progress                            *)
MaxYield == MaxMinute + 2

(* the handler calls time_range(start, end, d.slot_minutes) with the columns
   of the doctor row as they are; cur = combine(today, start) *)
call_time_range(caller, start, end, step_min) ==
    /\ gen.pc \in {"idle", "returned"}
    /\ gen' = [caller |-> caller, start |-> start, end |-> end,
               step_min |-> step_min, cur |-> start, out |-> <<>>,
               pc |-> "while"]

(* while cur <= end_dt: yield cur.time(); cur += delta *)
time_range_yield ==
    /\ gen.pc = "while"
    /\ loop_test(gen.cur, gen.end)
    /\ Len(gen.out) < MaxYield
    /\ gen' = [gen EXCEPT !.out = Append(@, gen.cur),
                          !.cur = @ + gen.step_min]

(* the loop test fails: the generator is exhausted and the caller has its list *)
time_range_return ==
    /\ gen.pc = "while"
    /\ ~loop_test(gen.cur, gen.end)
    /\ gen' = [gen EXCEPT !.pc = "returned"]

----------------------------------------------------------------------------
(* Specifications *)

Init ==
    /\ patients = {}
    /\ appts = <<>>
    /\ inflight = [r \in Workers |-> Idle]
    /\ req = OtherReq("none")
    /\ resp = Ok(0)
    /\ booked_log = <<>>
    /\ day_moved = FALSE
    /\ gen = NoCall

(* one request at a time, each handler a unit of work *)
Next ==
    \/ create_patient /\ UNCHANGED <<inflight, booked_log, day_moved, gen>>
    \/ \E body \in BookInputs :
           book_appointment(body) /\ UNCHANGED <<inflight, booked_log, day_moved, gen>>
    \/ \E body \in RescheduleInputs :
           reschedule(body) /\ UNCHANGED <<inflight, booked_log, day_moved, gen>>
    \/ \E body \in CancelInputs :
           cancel(body) /\ UNCHANGED <<inflight, booked_log, day_moved, gen>>

Spec == Init /\ [][Next]_vars

(* the same, with the history of the bookings kept *)
NextLog ==
    \/ create_patient /\ LogBooking /\ LogMove /\ UNCHANGED <<inflight, gen>>
    \/ \E body \in LogBookInputs :
           book_appointment(body) /\ LogBooking /\ LogMove /\ UNCHANGED <<inflight, gen>>
    \/ \E body \in LogRescheduleInputs :
           reschedule(body) /\ LogBooking /\ LogMove /\ UNCHANGED <<inflight, gen>>
    \/ \E body \in LogCancelInputs :
           cancel(body) /\ LogBooking /\ LogMove /\ UNCHANGED <<inflight, gen>>

SpecLog == Init /\ [][NextLog]_vars

(* book requests overlapping each other and the other handlers *)
NextRace ==
    \/ create_patient /\ UNCHANGED <<inflight, booked_log, day_moved, gen>>
    \/ \E r \in Workers, body \in LogBookInputs :
           book_begin(r, body) /\ UNCHANGED <<booked_log, day_moved, gen>>
    \/ \E r \in Workers : book_count(r) /\ UNCHANGED <<booked_log, day_moved, gen>>
    \/ \E r \in Workers : book_commit(r) /\ UNCHANGED <<booked_log, day_moved, gen>>
    \/ \E body \in RaceRescheduleInputs :
           reschedule(body) /\ UNCHANGED <<inflight, booked_log, day_moved, gen>>
    \/ \E body \in LogCancelInputs :
           cancel(body) /\ UNCHANGED <<inflight, booked_log, day_moved, gen>>

SpecRace == Init /\ [][NextRace]_vars

(* a handler building a slot grid; the tables play no part *)
NextGrid ==
    \/ \E caller \in Callers, start \in 0 .. MaxMinute, end \in 0 .. MaxMinute,
          step_min \in 0 .. MaxStep :
           /\ call_time_range(caller, start, end, step_min)
           /\ UNCHANGED <<patients, appts, inflight, req, resp, booked_log,
                          day_moved>>
    \/ time_range_yield
           /\ UNCHANGED <<patients, appts, inflight, req, resp, booked_log,
                          day_moved>>
    \/ time_range_return
           /\ UNCHANGED <<patients, appts, inflight, req, resp, booked_log,
                          day_moved>>

SpecGrid == Init /\ [][NextGrid]_vars

----------------------------------------------------------------------------
(* Vocabulary of the properties *)

(* the (doctor, date, time) a book request names *)
Slot(body) == <<body.doctor_id, body.date, body.time>>

(* the (doctor, date, time) a reschedule request names for appointment a *)
Target(body, a) ==
    <<IF body.doctor_id = NoDoctor THEN a.doctor_id ELSE body.doctor_id,
      body.date, body.time>>

Occupied(store, slot) == \E i \in DOMAIN store : slot_of(store[i]) = slot

WorksOn(doctor_id, date) ==
    \E k \in DOMAIN Doctors[doctor_id].days :
        Doctors[doctor_id].days[k] = weekday_name(date)

OnGrid(doctor_id, time) ==
    LET d == Doctors[doctor_id]
    IN  /\ d.start_time <= time
        /\ time <= d.end_time
        /\ (time - d.start_time) % d.slot_minutes = 0

(* a slot a doctor offers *)
Offered(slot) ==
    /\ slot[1] \in DOMAIN Doctors
    /\ WorksOn(slot[1], slot[2])
    /\ OnGrid(slot[1], slot[3])

(* the (doctor, date) of a slot *)
Day(slot) == <<slot[1], slot[2]>>

(* the rows other than row id are what they were *)
OthersUnchanged(id) ==
    /\ Len(appts') = Len(appts)
    /\ \A j \in DOMAIN appts : j # id => appts'[j] = appts[j]

----------------------------------------------------------------------------
(* C1: whatever book, reschedule and cancel requests were handled, and however
   the book requests overlapped, no (doctor, date, time) has two appointments
   with status booked. *)
OneBookedPerSlot ==
    \A i, j \in DOMAIN appts :
        (/\ appts[i].status = "booked"
         /\ appts[j].status = "booked"
         /\ slot_of(appts[i]) = slot_of(appts[j])) => i = j

(* a booked appointment holds a slot and a book request for that slot was
   turned away *)
OneBookedPerSlotWitness ==
    /\ req.op = "book"
    /\ resp.code = 409
    /\ \E i \in DOMAIN appts : /\ appts[i].status = "booked"
                               /\ slot_of(appts[i]) = Slot(req)

(* C2, as stated: once a booking of a slot has succeeded, every later book
   request of an existing patient for that slot fails with Conflict and creates
   nothing. *)
BookedOnceConflictsForever ==
    [][(/\ req'.op = "book"
        /\ req'.patient_id \in patients
        /\ Slot(req') \in SeqToSet(booked_log))
       => (resp'.code = 409 /\ appts' = appts)]_vars

(* C2, amended: a book request of an existing patient for a slot the doctor
   offers succeeds and appends one booked appointment at that slot when no
   appointment is stored there, and fails with Conflict, the table unchanged,
   when one (of any patient, booked or cancelled) is stored there. *)
BookFreeThenConflict ==
    [][(/\ req'.op = "book"
        /\ req'.patient_id \in patients
        /\ Offered(Slot(req')))
       => IF Occupied(appts, Slot(req'))
          THEN /\ resp' = HTTPException(409, <<"Slot already booked">>)
               /\ appts' = appts
          ELSE /\ resp'.code = 200
               /\ Len(appts') = Len(appts) + 1
               /\ SubSeq(appts', 1, Len(appts)) = appts
               /\ resp'.id = Len(appts')
               /\ slot_of(appts'[Len(appts')]) = Slot(req')
               /\ appts'[Len(appts')].patient_id = req'.patient_id
               /\ appts'[Len(appts')].status = "booked"]_vars

(* the second request for a slot, by another patient, was answered Conflict *)
BookFreeThenConflictWitness ==
    /\ req.op = "book"
    /\ resp.code = 409
    /\ Slot(req) \in SeqToSet(booked_log)
    /\ \E i \in DOMAIN appts : /\ slot_of(appts[i]) = Slot(req)
                               /\ appts[i].patient_id # req.patient_id

(* C3, as stated: the k-th successful booking for a (doctor, date) carries
   token_no = k. *)
TokenIsBookingRank ==
    \A i \in DOMAIN appts :
        appts[i].token_no =
            Cardinality({j \in 1 .. i : Day(booked_log[j]) = Day(booked_log[i])})

(* C3, amended: with the requests handled one at a time, a successful booking
   for a (doctor, date) whose stored appointments are exactly the ones booked
   for it (none was rescheduled into or out of it) is the k-th booking for it
   and carries token_no = k. *)
TokenIsRankWhileNoneMoved ==
    [][Len(appts') = Len(appts) + 1
       => LET new == appts'[Len(appts')]
              day == <<new.doctor_id, new.appt_date>>
              stored == {j \in DOMAIN appts : Day(slot_of(appts[j])) = day}
              booked == {j \in DOMAIN booked_log : Day(booked_log[j]) = day}
          IN  stored = booked => new.token_no = Cardinality(booked) + 1]_vars

(* two patients booked the same doctor and date, one after the other was
   cancelled, and hold tokens 1 and 2 *)
TokenIsRankWitness ==
    /\ Len(appts) = 2
    /\ Day(booked_log[1]) = Day(booked_log[2])
    /\ Day(slot_of(appts[1])) = Day(booked_log[1])
    /\ Day(slot_of(appts[2])) = Day(booked_log[2])
    /\ appts[1].patient_id # appts[2].patient_id
    /\ appts[1].status = "cancelled"
    /\ appts[1].token_no = 1
    /\ appts[2].token_no = 2
    /\ req.op = "book"
    /\ resp.code = 200

(* C4: a book request of an existing patient for the slot of a cancelled
   appointment succeeds. *)
CancelledSlotRebookable ==
    [][(/\ req'.op = "book"
        /\ req'.patient_id \in patients
        /\ \E i \in DOMAIN appts : /\ appts[i].status = "cancelled"
                                   /\ slot_of(appts[i]) = Slot(req'))
       => resp'.code = 200]_vars

(* C5: a reschedule of appointment A to an offered slot that another
   appointment holds fails with Conflict and changes nothing; a reschedule of A
   to the slot it holds succeeds and changes nothing. *)
RescheduleClashOrNoop ==
    [][(req'.op = "reschedule" /\ req'.appointment_id \in DOMAIN appts)
       => LET id == req'.appointment_id
              target == Target(req', appts[id])
          IN  /\ (/\ Offered(target)
                  /\ \E j \in DOMAIN appts : j # id /\ slot_of(appts[j]) = target)
                 => (/\ resp' = HTTPException(409, <<"Requested slot already booked">>)
                     /\ appts' = appts)
              /\ target = slot_of(appts[id])
                 => (resp' = Ok(id) /\ appts' = appts)]_vars

(* a reschedule into the slot of another appointment was answered Conflict *)
RescheduleClashWitness ==
    /\ req.op = "reschedule"
    /\ resp.code = 409
    /\ req.appointment_id \in DOMAIN appts
    /\ \E j \in DOMAIN appts :
           /\ j # req.appointment_id
           /\ slot_of(appts[j]) = Target(req, appts[req.appointment_id])

(* C6: a successful cancel of appointment A sets A's status to cancelled,
   keeps A's other fields, keeps every other appointment and keeps the number of
   rows. *)
CancelFrame ==
    [][(req'.op = "cancel" /\ resp'.code = 200)
       => LET id == req'.appointment_id
          IN  /\ id \in DOMAIN appts
              /\ OthersUnchanged(id)
              /\ appts'[id].status = "cancelled"
              /\ appts'[id].patient_id = appts[id].patient_id
              /\ appts'[id].doctor_id = appts[id].doctor_id
              /\ appts'[id].appt_date = appts[id].appt_date
              /\ appts'[id].appt_time = appts[id].appt_time
              /\ appts'[id].token_no = appts[id].token_no
              /\ appts'[id].payment_method = appts[id].payment_method]_vars

(* one of two appointments was cancelled, the other is still booked *)
CancelFrameWitness ==
    /\ req.op = "cancel"
    /\ resp.code = 200
    /\ Len(appts) = 2
    /\ appts[req.appointment_id].status = "cancelled"
    /\ \E j \in DOMAIN appts : appts[j].status = "booked"

(* C7: a successful reschedule of appointment A sets A's doctor, date and time
   to the requested ones (the doctor A has when none is requested), keeps A's
   token_no, status and patient, and keeps every other appointment. *)
RescheduleFrame ==
    [][(req'.op = "reschedule" /\ resp'.code = 200)
       => LET id == req'.appointment_id
          IN  /\ id \in DOMAIN appts
              /\ OthersUnchanged(id)
              /\ slot_of(appts'[id]) = Target(req', appts[id])
              /\ appts'[id].token_no = appts[id].token_no
              /\ appts'[id].status = appts[id].status
              /\ appts'[id].patient_id = appts[id].patient_id
              /\ appts'[id].payment_method = appts[id].payment_method]_vars

(* a cancelled appointment was moved to the doctor the request names, beside
   another appointment *)
RescheduleFrameWitness ==
    /\ req.op = "reschedule"
    /\ resp.code = 200
    /\ req.doctor_id # NoDoctor
    /\ Len(appts) = 2
    /\ appts[req.appointment_id].status = "cancelled"
    /\ appts[req.appointment_id].doctor_id = req.doctor_id
    /\ appts[req.appointment_id].appt_date = Tuesday

(* C8: a book, reschedule or cancel request that fails leaves the table of
   appointments as it was. *)
FailureWritesNothing ==
    [][(req'.op \in {"book", "reschedule", "cancel"} /\ resp'.code # 200)
       => appts' = appts]_vars

(* a book request for a time off the doctor's grid failed beside stored rows *)
FailureWritesNothingWitness ==
    /\ req.op = "book"
    /\ resp = HTTPException(400, <<"Invalid time slot">>)
    /\ Len(appts) >= 1

(* C9: a book request fails with the error of the first precondition it
   violates, in the order patient, doctor, working day, slot grid, free slot,
   and succeeds exactly when it violates none. *)
BookPreconditionOrder ==
    [][req'.op = "book"
       => LET p1 == req'.patient_id \in patients
              p2 == req'.doctor_id \in DOMAIN Doctors
              p3 == WorksOn(req'.doctor_id, req'.date)
              p4 == OnGrid(req'.doctor_id, req'.time)
              p5 == ~Occupied(appts, Slot(req'))
          IN  /\ ~p1 => resp' = HTTPException(404, <<"Patient not found">>)
              /\ (p1 /\ ~p2) => resp' = HTTPException(404, <<"Doctor not found">>)
              /\ (p1 /\ p2 /\ ~p3)
                 => resp' = HTTPException(400, <<"Doctor not available on",
                                                 weekday_name(req'.date)>>)
              /\ (p1 /\ p2 /\ p3 /\ ~p4)
                 => resp' = HTTPException(400, <<"Invalid time slot">>)
              /\ (p1 /\ p2 /\ p3 /\ p4 /\ ~p5)
                 => resp' = HTTPException(409, <<"Slot already booked">>)
              /\ (resp'.code = 200) <=> (p1 /\ p2 /\ p3 /\ p4 /\ p5)]_vars

(* a request naming a missing patient and a missing doctor was answered with
   the patient's error *)
BookPreconditionOrderWitness ==
    /\ req.op = "book"
    /\ req.patient_id \notin patients
    /\ req.doctor_id \notin DOMAIN Doctors
    /\ resp = HTTPException(404, <<"Patient not found">>)

(* C10: when a book request commits after another row took its slot (both
   passed the conflict query first), the store rejects the insert, and after
   every commit no two rows share a (doctor, date, time). *)
RaceRejectedByStore ==
    [][\A r \in Workers :
        (inflight[r].pc = "counted" /\ inflight'[r].pc = "idle")
        => /\ Occupied(appts, Slot(inflight[r].body))
              => (appts' = appts /\ resp' = IntegrityError)
           /\ \A i, j \in DOMAIN appts' :
                  slot_of(appts'[i]) = slot_of(appts'[j]) => i = j]_vars

(* the loser of a race: its insert was rejected and the slot holds one row *)
RaceRejectedWitness ==
    /\ req.op = "book"
    /\ resp = IntegrityError
    /\ Cardinality(rows_at(appts, req.doctor_id, req.date, req.time)) = 1

(* C11: a book request that commits never gives its appointment the token_no
   of an appointment already stored for the same doctor and date, however the
   steps of the two requests interleave. *)
RaceTokensDistinct ==
    [][\A r \in Workers :
        (/\ inflight[r].pc = "counted"
         /\ inflight'[r].pc = "idle"
         /\ Len(appts') = Len(appts) + 1)
        => \A j \in DOMAIN appts :
               Day(slot_of(appts[j])) = Day(slot_of(appts'[Len(appts')]))
               => appts[j].token_no # appts'[Len(appts')].token_no]_vars

(* C12: for step > 0, the list time_range(start, end, step) produces is
   exactly start, start + step, start + 2 * step, ... up to the largest such
   point <= end: strictly increasing, beginning at start when start <= end,
   ending at end when end is on the grid, empty when start > end; and it is
   the list the handlers' grid operator computes. *)
TimeRangeGrid ==
    (gen.pc = "returned" /\ gen.step_min > 0) =>
        LET out == gen.out
            n == Len(gen.out)
        IN  /\ \A i \in 1 .. n : out[i] = gen.start + (i - 1) * gen.step_min
            /\ \A i \in 1 .. n : out[i] <= gen.end
            /\ \A i \in 1 .. (n - 1) : out[i] < out[i + 1]
            /\ (gen.start <= gen.end) => (n >= 1 /\ out[1] = gen.start)
            /\ (gen.start > gen.end) => (n = 0)
            /\ (n >= 1) => (out[n] + gen.step_min > gen.end)
            /\ (gen.start <= gen.end
                  /\ (gen.end - gen.start) % gen.step_min = 0)
               => (out[n] = gen.end)
            /\ out = time_range(gen.start, gen.end, gen.step_min)

(* an end that is not a grid point: from 0 to 5 by 2 the list stops at 4 *)
TimeRangeGridWitness ==
    /\ gen.pc = "returned"
    /\ gen.start = 0 /\ gen.end = 5 /\ gen.step_min = 2
    /\ gen.out = <<0, 2, 4>>

(* C17: a handler that builds the grid of a doctor whose slot duration is 0
   rejects the duration: the generator yields no slot for a step of 0. *)
ZeroStepRejected ==
    (gen.pc # "idle" /\ gen.step_min = 0) => gen.out = <<>>

----------------------------------------------------------------------------
(* Vocabulary of the availability properties *)

Departments ==
    {Doctors[id].department : id \in DOMAIN Doctors} \cup {"Radiology"}

(* the seven days from Monday 2024-01-01 *)
Week == {Monday + k : k \in 0 .. 6}

(* the points start, start + step, ... <= end of each doctor, by arithmetic *)
GridPoints == [id \in DOMAIN Doctors |-> {t \in 0 .. 1439 : OnGrid(id, t)}]

(* the elements of a finite set of numbers, smallest first *)
RECURSIVE Ascending(_)
Ascending(S) ==
    IF S = {}
    THEN <<>>
    ELSE LET m == CHOOSE x \in S : \A y \in S : x <= y
         IN  <<m>> \o Ascending(S \ {m})

(* each doctor's grid points in chronological order *)
GridLists == [id \in DOMAIN Doctors |-> Ascending(GridPoints[id])]

(* the grid points of a doctor that no stored row of the date holds, in
   chronological order *)
Unheld(store, doctor_id, date) ==
    SelectSeq(GridLists[doctor_id],
              LAMBDA t : ~Occupied(store, <<doctor_id, date, t>>))

(* the list of a query's result *)
Listing(department, date, store) ==
    availability(AvailabilityQuery(department, date), store).availability

(* the free_slots a query for the doctor's department shows for the doctor *)
FreeSlots(doctor_id, date, store) ==
    LET out == Listing(Doctors[doctor_id].department, date, store)
    IN  UNION {SeqToSet(out[i].free_slots) :
                  i \in {k \in DOMAIN out : out[k].doctor_id = doctor_id}}

GridMinusStored(store, dates) ==
    \A department \in Departments, date \in dates :
        LET out == Listing(department, date, store)
            due == {id \in DOMAIN Doctors :
                       /\ Doctors[id].department = department
                       /\ WorksOn(id, date)}
        IN  /\ Len(out) = Cardinality(due)
            /\ {out[i].doctor_id : i \in DOMAIN out} = due
            /\ \A i \in DOMAIN out :
                   LET left == Unheld(store, out[i].doctor_id, date)
                   IN  out[i].free_slots
                           = [k \in 1 .. Len(left) |-> strftime(left[k])]

(* on the dates that can have appointments, in the current store *)
AvailabilityIsGridMinusStored == GridMinusStored(appts, Dates)

(* on every day of the week, before any appointment *)
AvailabilityIsGridAtFirst == GridMinusStored(<<>>, Week)

BookingTakesOneSlot ==
    (req'.op = "book" /\ resp'.code = 200 /\ Len(appts') = Len(appts) + 1)
    => LET a == appts'[Len(appts')]
           before == free(appts, a.doctor_id, a.appt_date)
           after == free(appts', a.doctor_id, a.appt_date)
       IN  /\ after = SelectSeq(before, LAMBDA s : s # strftime(a.appt_time))
           /\ Len(after) = Len(before) - 1

(* doctor 1 on a Monday: 19 slots from 09:00 to 12:00, 18 once 09:00 is booked *)
EighteenAfterNine ==
    /\ Len(free(<<>>, 1, Monday)) = 19
    /\ Len(free(book_result(BookReq(1, 1, Monday, 540, "direct"), {1}, <<>>).appts,
                1, Monday)) = 18

(* C13: for every department and date, availability has one entry for each
   doctor of the department working that weekday, whose free_slots are the
   doctor's grid points in chronological order minus the times of all rows
   stored for the doctor and date, cancelled ones included; a successful
   booking removes exactly its time from the doctor's list (19 slots, 18
   after booking 09:00). *)
AvailabilityGridMinusTaken ==
    /\ []AvailabilityIsGridMinusStored
    /\ []AvailabilityIsGridAtFirst
    /\ [][BookingTakesOneSlot]_vars
    /\ []EighteenAfterNine

(* a cancelled row still holds its time: 10:00 is not offered *)
AvailabilityGridMinusTakenWitness ==
    /\ \E i \in DOMAIN appts : /\ slot_of(appts[i]) = <<1, Monday, 600>>
                               /\ appts[i].status = "cancelled"
    /\ Len(free(appts, 1, Monday)) = 18
    /\ "10:00" \notin FreeSlots(1, Monday, appts)
    /\ "10:10" \in FreeSlots(1, Monday, appts)

NoneOffDay(store, dates) ==
    \A department \in Departments, date \in dates :
        LET out == Listing(department, date, store)
        IN  \A i \in DOMAIN out :
                /\ Doctors[out[i].doctor_id].department = department
                /\ WorksOn(out[i].doctor_id, date)

NoneOffDayAtFirst == NoneOffDay(<<>>, Week)

(* C14: whatever appointments are stored, no entry of an availability result
   is for a doctor who does not work on the weekday of the queried date, or
   for a doctor of another department: in the current store on the dates
   that can have appointments, and on every day of the week before any
   appointment. *)
NoEntryOffDay ==
    /\ NoneOffDay(appts, Dates)
    /\ NoneOffDayAtFirst

(* doctor 3 (Mon, Thu) has an appointment; a Tuesday query lists doctor 4 only *)
NoEntryOffDayWitness ==
    /\ \E i \in DOMAIN appts : appts[i].doctor_id = 3
    /\ LET out == Listing("Cardiology", Tuesday, appts)
       IN  Len(out) = 1 /\ out[1].doctor_id = 4

----------------------------------------------------------------------------
(* the rows stored for a (doctor, date), whatever their status *)
RowsOfDay(store, day) == {i \in DOMAIN store : Day(slot_of(store[i])) = day}

(* C15: a successful booking gets token_no = number of rows stored for its
   doctor and date at that moment, cancelled ones included, plus one; a
   cancel changes the token_no of no row. *)
TokenCountsCancelled ==
    [][/\ (req'.op = "book" /\ resp'.code = 200)
          => /\ Len(appts') = Len(appts) + 1
             /\ LET a == appts'[Len(appts')]
                IN  a.token_no
                      = Cardinality(RowsOfDay(appts, Day(slot_of(a)))) + 1
       /\ (req'.op = "cancel")
          => /\ Len(appts') = Len(appts)
             /\ \A i \in DOMAIN appts : appts'[i].token_no = appts[i].token_no
      ]_vars

(* a patient booked, cancelled, and booked the same doctor and date again:
   the cancelled row keeps token 1 and the new row has token 2 *)
TokenCountsCancelledWitness ==
    /\ Len(appts) = 2
    /\ Day(slot_of(appts[1])) = Day(slot_of(appts[2]))
    /\ appts[1].patient_id = appts[2].patient_id
    /\ appts[1].status = "cancelled" /\ appts[1].token_no = 1
    /\ appts[2].status = "booked" /\ appts[2].token_no = 2
    /\ ~day_moved
    /\ req.op = "book" /\ resp.code = 200

(* C16: whatever book, reschedule (with or without a change of doctor) and
   cancel requests were handled, every stored appointment's date falls on a
   working day of its current doctor and its time is a point of that doctor's
   slot grid. *)
StoredOnSchedule ==
    \A i \in DOMAIN appts :
        /\ appts[i].doctor_id \in DOMAIN Doctors
        /\ WorksOn(appts[i].doctor_id, appts[i].appt_date)
        /\ OnGrid(appts[i].doctor_id, appts[i].appt_time)

(* an appointment was moved to doctor 3 while doctor 1 has one as well *)
StoredOnScheduleWitness ==
    /\ req.op = "reschedule" /\ resp.code = 200
    /\ req.doctor_id = 3
    /\ \E i \in DOMAIN appts :
           /\ i = req.appointment_id
           /\ slot_of(appts[i]) = <<3, Monday, 600>>
           /\ appts[i].token_no = 1
    /\ \E j \in DOMAIN appts : appts[j].doctor_id = 1

----------------------------------------------------------------------------
(* no two rows of one (doctor, date) carry the same token_no *)
TokensDistinctPerDay(store) ==
    \A i, j \in DOMAIN store :
        (i # j /\ Day(slot_of(store[i])) = Day(slot_of(store[j])))
        => store[i].token_no # store[j].token_no

(* C18 as stated: whatever book, reschedule and cancel requests were handled,
   no two appointments stored for the same (doctor, date) carry the same
   token_no. *)
TokensUniquePerDay == TokensDistinctPerDay(appts)

(* C18: with the requests handled one at a time, as long as no reschedule has
   changed the doctor or the date of an appointment, no two appointments
   stored for the same (doctor, date) carry the same token_no. *)
TokensUniqueWhileNoneMoved == ~day_moved => TokensDistinctPerDay(appts)

(* two rows of one doctor and date, one of them rescheduled to another time
   and cancelled, with tokens 1 and 2 *)
TokensUniqueWitness ==
    /\ ~day_moved
    /\ Len(appts) = 2
    /\ Day(slot_of(appts[1])) = Day(slot_of(appts[2]))
    /\ slot_of(appts[1]) # booked_log[1]
    /\ appts[1].status = "cancelled"
    /\ {appts[1].token_no, appts[2].token_no} = {1, 2}

----------------------------------------------------------------------------
(* the times requests are made for, and the ends of doctor 1's window *)
ProbeTimes == Times \cup LogTimes \cup {540, 720}

(* the doctors that can have appointments, and doctor 4, who shares doctor
   3's department and works on other days *)
ProbeDoctors == (DoctorIds \cap DOMAIN Doctors) \cup {4}

(* each of the times is listed for the doctor exactly when booking it would
   succeed *)
ListedIffBookable(ps, store, doctor_id, date, times) ==
    LET listed == FreeSlots(doctor_id, date, store)
    IN  \A t \in times, p \in ps :
            (strftime(t) \in listed)
            <=> (book_result(BookReq(p, doctor_id, date, t, PaymentOf(p)),
                             ps, store).resp.code = 200)

(* every doctor, day of the week and minute of the day, before any appointment *)
ListedIffBookableAtFirst ==
    \A doctor_id \in DOMAIN Doctors, date \in Week :
        ListedIffBookable({1}, <<>>, doctor_id, date, 0 .. 1439)

(* C19: in every reachable state, for an existing patient, a doctor and a
   date, a time is in the free_slots that a query for the doctor's department
   and the date shows for the doctor if and only if a book request for that
   doctor, date and time handled in that state succeeds: for the doctors,
   dates and times around the stored appointments in the current store, and
   for every doctor, day of the week and minute before any appointment. *)
AvailabilityAgreesWithBook ==
    /\ \A doctor_id \in ProbeDoctors, date \in Dates :
           ListedIffBookable(patients, appts, doctor_id, date, ProbeTimes)
    /\ ListedIffBookableAtFirst

(* 10:00 with doctor 1 is held by a cancelled row on Monday and free on
   Tuesday: not listed and refused, listed and accepted *)
AvailabilityAgreesWitness ==
    /\ 1 \in patients
    /\ \E i \in DOMAIN appts : /\ slot_of(appts[i]) = <<1, Monday, 600>>
                               /\ appts[i].status = "cancelled"
    /\ "10:00" \notin FreeSlots(1, Monday, appts)
    /\ book_result(BookReq(1, 1, Monday, 600, PaymentOf(1)),
                   patients, appts).resp.code = 409
    /\ "10:00" \in FreeSlots(1, Tuesday, appts)
    /\ book_result(BookReq(1, 1, Tuesday, 600, PaymentOf(1)),
                   patients, appts).resp.code = 200

----------------------------------------------------------------------------
(* every row that is cancelled is still there and cancelled after the step *)
StaysCancelled ==
    \A i \in DOMAIN appts :
        appts[i].status = "cancelled"
        => (i \in DOMAIN appts' /\ appts'[i].status = "cancelled")

(* a cancel request for a cancelled row is answered 200 and stores nothing *)
CancelAgain ==
    (/\ req'.op = "cancel"
     /\ req'.appointment_id \in DOMAIN appts
     /\ appts[req'.appointment_id].status = "cancelled")
    => (resp' = Ok(req'.appointment_id) /\ appts' = appts)

(* the same of the handler's result, for every cancelled row of the store *)
CancelAgainResult ==
    \A i \in DOMAIN appts :
        appts[i].status = "cancelled"
        => cancel_result(CancelReq(i), appts) = [appts |-> appts, resp |-> Ok(i)]

(* C20: an appointment that is cancelled stays cancelled whatever book,
   reschedule or cancel request is handled next, and a cancel request for an
   appointment that is already cancelled succeeds and leaves every row as it
   was. *)
CancelledIsAbsorbing ==
    /\ [][StaysCancelled /\ CancelAgain]_vars
    /\ []CancelAgainResult

(* a cancelled appointment was rescheduled to doctor 3 and is still cancelled *)
CancelledIsAbsorbingWitness ==
    /\ req.op = "reschedule" /\ resp.code = 200
    /\ req.appointment_id \in DOMAIN appts
    /\ appts[req.appointment_id].status = "cancelled"
    /\ appts[req.appointment_id].doctor_id = 3

====
